---- MODULE Spec2Model ----
(***************************************************************************)
(* Turn-processing state machine of the Flou metamotivation tutor          *)
(* (app/services/ai_service.py): Crisis Guard, Slot Extractor, Quadrant    *)
(* Classifier, Strategy Selector, the blocking orchestrator                *)
(* handle_user_turn and the streaming orchestrator handle_user_turn_stream.*)
(*                                                                         *)
(* Conventions.                                                            *)
(*  - A Python dict is a function whose DOMAIN is the set of keys present. *)
(*  - None is the string "None" for string fields and NoneInt for          *)
(*    Optional[int] fields.                                                *)
(*  - Confidences are percentages (1.0 = 100, 0.7 = 70, 0.5 = 50).         *)
(*  - The level symbols of the catalog are written "up" and "down".        *)
(*  - A user text is seen by the code only through pattern searches, so a  *)
(*    text is a record: its stripped command form (kind, val) and the set  *)
(*    of pattern alternatives it contains (words).                         *)
(***************************************************************************)
EXTENDS Integers, Sequences, FiniteSets, TLC

None == "None"
NoneInt == -1

\* ---------------------------------------------------------------- bounds
MaxTurns == 4           \* requests served in one behaviour
MaxFrags == 2           \* tokens the Generator streams in one reply
MaxCatalog == 3         \* entries of a catalog handed to the selector alone

\* ------------------------------------------------------------ dict helpers
EmptyDict == [x \in {} |-> None]
Has(d, k) == k \in DOMAIN d
Get(d, k, default) == IF k \in DOMAIN d THEN d[k] ELSE default
Put(d, k, v) == [x \in (DOMAIN d) \cup {k} |-> IF x = k THEN v ELSE d[x]]

\* Python truthiness of an Optional[str] / Optional[int] value
TruthyStr(v) == v # None /\ v # ""
TruthyInt(v) == v # NoneInt /\ v # 0
\* Python `a or b`
OrStr(a, b) == IF TruthyStr(a) THEN a ELSE b
OrInt(a, b) == IF TruthyInt(a) THEN a ELSE b

\* ------------------------------------------------------------------ Slots
Slots(s, so, tt, r, p, f, tb, nu, ae) ==
    [sentimiento |-> s, sentimiento_otro |-> so, tipo_tarea |-> tt, ramo |-> r,
     plazo |-> p, fase |-> f, tiempo_bloque |-> tb,
     nivel_urgencia |-> nu, autoeficacia |-> ae]

EmptySlots == Slots(None, None, None, None, None, None, NoneInt, None, None)

\* fields of Slots holding strings, and the one holding an integer
StrFields == {"sentimiento", "sentimiento_otro", "tipo_tarea", "ramo",
              "plazo", "fase", "nivel_urgencia", "autoeficacia"}
IsNull(slots, f) ==
    IF f = "tiempo_bloque" THEN slots[f] = NoneInt ELSE slots[f] = None

SessionStateSchema(sid, uid) ==
    [session_id |-> sid, user_id |-> uid, iteration |-> 0,
     slots |-> EmptySlots, last_strategy |-> None, strategy_given |-> FALSE,
     current_vibe |-> "NEUTRAL", conversation_phase |-> "initial",
     metadata |-> EmptyDict]

\* ------------------------------------------------- heuristic pattern guesses
\* Each guess_* searches its alternatives in a fixed order; the first group
\* that matches wins.  A word of a text names the group it matches.
guess_plazo(w) ==
    IF "hoy" \in w THEN "hoy"
    ELSE IF "manana" \in w THEN "<24h"
    ELSE IF "esta semana" \in w THEN "esta_semana"
    ELSE IF "mes" \in w THEN ">1_semana"
    ELSE None

guess_tipo_tarea(w) ==
    IF "ensayo" \in w THEN "ensayo"
    ELSE IF "esquema" \in w THEN "esquema"
    ELSE IF "borrador" \in w THEN "borrador"
    ELSE IF "presentacion" \in w THEN "presentacion"
    ELSE IF "corregir" \in w THEN "proofreading"
    ELSE IF "examen" \in w THEN "mcq"
    ELSE IF "laboratorio" \in w THEN "protocolo_lab"
    ELSE IF "ejercicio" \in w THEN "resolver_problemas"
    ELSE IF "lectura" \in w THEN "lectura_tecnica"
    ELSE IF "resumen" \in w THEN "resumen"
    ELSE IF "codigo" \in w /\ ~("bug" \in w) THEN "coding"
    ELSE IF "bug" \in w THEN "bugfix"
    ELSE None

guess_fase(w) ==
    IF "inicio" \in w THEN "ideacion"
    ELSE IF "plan" \in w THEN "planificacion"
    ELSE IF "escribir" \in w THEN "ejecucion"
    ELSE IF "revisar" \in w \/ "corregir" \in w THEN "revision"
    ELSE None

guess_sentimiento(w) ==
    IF "frustra" \in w THEN "frustracion"
    ELSE IF "ansiedad" \in w THEN "ansiedad_error"
    ELSE IF "aburri" \in w THEN "aburrimiento"
    ELSE IF "dispers" \in w THEN "dispersion_rumiacion"
    ELSE IF "no puedo" \in w THEN "baja_autoeficacia"
    ELSE None

guess_tiempo_bloque(w) ==
    IF "10" \in w THEN 10
    ELSE IF "12" \in w THEN 12
    ELSE IF "15" \in w THEN 15
    ELSE IF "25" \in w THEN 25
    ELSE IF "45" \in w THEN 45
    ELSE NoneInt

\* Slots(...) is built from five keyword arguments only: every other field
\* of the result takes the class default None.
extract_slots_heuristic(w, current_slots) ==
    Slots(OrStr(guess_sentimiento(w), current_slots.sentimiento),
          None,
          OrStr(guess_tipo_tarea(w), current_slots.tipo_tarea),
          None,
          OrStr(guess_plazo(w), current_slots.plazo),
          OrStr(guess_fase(w), current_slots.fase),
          OrInt(guess_tiempo_bloque(w), current_slots.tiempo_bloque),
          None, None)

\* --------------------------------------------------- model-assisted extraction
\* A Generator outcome of a JSON-mode call is a record: kind "raise" (the
\* call failed), "badjson" (json.loads, or the validation of the parsed
\* values, failed) or "json" with the parsed object as body.
Raise == [kind |-> "raise", body |-> EmptyDict]
BadJson == [kind |-> "badjson", body |-> EmptyDict]
Json(obj) == [kind |-> "json", body |-> obj]

LlmMerge(parsed, current_slots) ==
    Slots(OrStr(Get(parsed, "sentimiento", None), current_slots.sentimiento),
          OrStr(Get(parsed, "sentimiento_otro", None), current_slots.sentimiento_otro),
          OrStr(Get(parsed, "tipo_tarea", None), current_slots.tipo_tarea),
          OrStr(Get(parsed, "ramo", None), current_slots.ramo),
          OrStr(Get(parsed, "plazo", None), current_slots.plazo),
          OrStr(Get(parsed, "fase", None), current_slots.fase),
          OrInt(Get(parsed, "tiempo_bloque", NoneInt), current_slots.tiempo_bloque),
          None, None)

extract_slots_with_llm(cl, w, current_slots, resp) ==
    IF cl = None THEN extract_slots_heuristic(w, current_slots)
    ELSE IF resp.kind \in {"raise", "badjson"}
         THEN extract_slots_heuristic(w, current_slots)
         ELSE LlmMerge(resp.body, current_slots)

\* TRUE iff extract_slots_with_llm reaches the Generator
ExtractCallsGenerator(cl) == cl # None

\* ------------------------------------------------------ Quadrant Classifier
A_tasks == {"ensayo", "esquema", "borrador", "presentacion", "coding"}
B_tasks == {"proofreading", "mcq", "protocolo_lab", "resolver_problemas",
            "bugfix", "lectura_tecnica", "resumen"}

infer_q2_q3(slots) ==
    LET urgent == slots.fase = "revision" \/ slots.plazo \in {"hoy", "<24h"}
        early == slots.fase \in {"ideacion", "planificacion"}
        q2a == IF slots.tipo_tarea \in B_tasks THEN "B" ELSE "A"
        q2b == IF urgent THEN "B" ELSE q2a
        Q2 == IF early THEN "A" ELSE q2b
        q3a == IF early THEN "up" ELSE "down"
        q3b == IF urgent THEN "down" ELSE q3a
        Q3 == IF slots.tipo_tarea = "ensayo"
                  /\ slots.fase \in {"planificacion", "ejecucion"}
               THEN "mixto" ELSE q3b
        enfoque == IF Q2 = "A" THEN "promocion_eager" ELSE "prevencion_vigilant"
    IN  [Q2 |-> Q2, Q3 |-> Q3, enfoque |-> enfoque]

\* -------------------------------------------------------- Strategy Selector
\* str.lower() on the category labels that occur
Lower(s) ==
    CASE s = "PROMOCION_EAGER" -> "promocion_eager"
      [] s = "PREVENCION_VIGILANT" -> "prevencion_vigilant"
      [] s = "ABSTRACTO" -> "abstracto"
      [] s = "CONCRETO" -> "concreto"
      [] OTHER -> s

\* the dict returned when no candidate is left: it has exactly these keys
GenericFallback ==
    [nombre |-> "Estrategia Generica", template |-> "generic_template",
     vibe |-> "NEUTRAL"]

InSeq(x, seq) == \E i \in 1..Len(seq) : seq[i] = x

IsCandidate_NoTimeCheck(strat, tipo_tarea, fase, tiempo_disponible, excluidas) ==
    /\ ~InSeq(Get(strat, "nombre", None), excluidas)
    /\ ("cualquiera" \in Get(strat, "tareas", {}) \/ tipo_tarea \in Get(strat, "tareas", {}))
    /\ ("cualquiera" \in Get(strat, "fases", {}) \/ fase \in Get(strat, "fases", {}))

\* the filter of the candidate loop, for one catalog entry
IsCandidate(strat, tipo_tarea, fase, tiempo_disponible, excluidas) ==
    /\ ~InSeq(Get(strat, "nombre", None), excluidas)
    /\ ~(tiempo_disponible < Get(strat, "tiempo_minimo", 0))
    /\ ("cualquiera" \in Get(strat, "tareas", {}) \/ tipo_tarea \in Get(strat, "tareas", {}))
    /\ ("cualquiera" \in Get(strat, "fases", {}) \/ fase \in Get(strat, "fases", {}))

seleccionar_estrategia_NoLevelTier(catalog, enfoque0, nivel0, tipo_tarea, fase, tiempo_disponible, sentimiento, excluir) ==
    LET safe == sentimiento \in {"ansiedad_error", "baja_autoeficacia"}
        enfoque == IF safe THEN "prevencion_vigilant" ELSE enfoque0
        nivel == IF safe THEN "down" ELSE nivel0
        nivel_sym == IF nivel = "up" \/ nivel = "ABSTRACTO" THEN "up" ELSE "down"
        idx == [i \in 1..Len(catalog) |-> i]
        Cand(i) == IsCandidate(catalog[i], tipo_tarea, fase, tiempo_disponible, excluir)
        candidates == SelectSeq(idx, Cand)
        Cat(i) == Lower(Get(catalog[i], "category", "")) = Lower(enfoque)
        category_match == SelectSeq(candidates, Cat)
        cat_nivel == IF nivel_sym = "up" THEN "ABSTRACTO" ELSE "CONCRETO"
        NivOnly(i) == Get(catalog[i], "category", None) = cat_nivel
        nivel_only_match == SelectSeq(candidates, NivOnly)
    IN  IF category_match # <<>> THEN category_match[1]
        ELSE IF nivel_only_match # <<>> THEN nivel_only_match[1]
        ELSE IF candidates # <<>> THEN candidates[1]
        ELSE 0

\* The function returns a reference to a catalog dict, or a fresh generic
\* dict: the result is the index of the entry in the catalog, 0 for the
\* generic fallback.
seleccionar_estrategia(catalog, enfoque0, nivel0, tipo_tarea, fase, tiempo_disponible, sentimiento, excluir) ==
    LET safe == sentimiento \in {"ansiedad_error", "baja_autoeficacia"}
        enfoque == IF safe THEN "prevencion_vigilant" ELSE enfoque0
        nivel == IF safe THEN "down" ELSE nivel0
        nivel_sym == IF nivel = "up" \/ nivel = "ABSTRACTO" THEN "up" ELSE "down"
        idx == [i \in 1..Len(catalog) |-> i]
        Cand(i) == IsCandidate(catalog[i], tipo_tarea, fase, tiempo_disponible, excluir)
        candidates == SelectSeq(idx, Cand)
        Cat(i) == Lower(Get(catalog[i], "category", "")) = Lower(enfoque)
        category_match == SelectSeq(candidates, Cat)
        Lev(i) == Get(catalog[i], "nivel_recomendado", None) = nivel_sym
        level_match == SelectSeq(category_match, Lev)
        cat_nivel == IF nivel_sym = "up" THEN "ABSTRACTO" ELSE "CONCRETO"
        NivOnly(i) == Get(catalog[i], "category", None) = cat_nivel
        nivel_only_match == SelectSeq(candidates, NivOnly)
    IN  IF level_match # <<>> THEN level_match[1]
        ELSE IF category_match # <<>> THEN category_match[1]
        ELSE IF nivel_only_match # <<>> THEN nivel_only_match[1]
        ELSE IF candidates # <<>> THEN candidates[1]
        ELSE 0

\* the dict a selector result refers to
StrategyAt(catalog, i) == IF i = 0 THEN GenericFallback ELSE catalog[i]

\* --------------------------------------------------------------- Crisis Guard
\* the regex search of Stage 1 ("crisis" names the alternation of keywords)
CrisisRegexMatches(w) == "crisis" \in w

NoKeywordsResult ==
    [is_crisis |-> FALSE, confidence |-> 100, reason |-> "No keywords"]

NoLlmResult_Confident ==
    [is_crisis |-> TRUE, confidence |-> 100, reason |-> "Regex match (no LLM)"]

NoLlmResult ==
    [is_crisis |-> TRUE, confidence |-> 50, reason |-> "Regex match (no LLM)"]

LlmFailedResult ==
    [is_crisis |-> TRUE, confidence |-> 50, reason |-> "Regex match (LLM failed)"]

detect_crisis_NoStage1(cl, w, resp) ==
    IF cl = None THEN NoLlmResult
    ELSE IF resp.kind \in {"raise", "badjson"} THEN LlmFailedResult
    ELSE resp.body

\* resp is the Generator outcome of Stage 2; it is consulted only when the
\* regex matched and the client exists.
detect_crisis(cl, w, resp) ==
    IF ~CrisisRegexMatches(w) THEN NoKeywordsResult
    ELSE IF cl = None THEN NoLlmResult
    ELSE IF resp.kind \in {"raise", "badjson"} THEN LlmFailedResult
    ELSE resp.body

CrisisCallsGenerator(cl, w) == CrisisRegexMatches(w) /\ cl # None

CrisisActedUpon_AtThreshold(crisis) ==
    /\ Has(crisis, "is_crisis") /\ crisis["is_crisis"] = TRUE
    /\ Get(crisis, "confidence", 0) >= 70

\* the orchestrators' test: crisis.get("is_crisis") and crisis.get("confidence", 0) > 0.7
CrisisActedUpon(crisis) ==
    /\ Has(crisis, "is_crisis") /\ crisis["is_crisis"] = TRUE
    /\ Get(crisis, "confidence", 0) > 70

\* --------------------------------------------------------- localized messages
\* I18N_MESSAGES.get(locale, I18N_MESSAGES["es"])
Lang(locale) == IF locale \in {"es", "en"} THEN locale ELSE "es"

NumTimeVariations == 4

\* get_message for a key whose table entry is a string
get_message(key, locale) == key \o "@" \o Lang(locale)
\* get_message for "ask_time_variations" (random.choice of the list: v)
get_message_variation(key, locale, v) == key \o "@" \o Lang(locale) \o "#" \o ToString(v)
\* get_message("strategy_accepted", ...) with its two format arguments
get_message_accepted(locale, strategy_name, tiempo) ==
    "strategy_accepted@" \o Lang(locale) \o ":" \o strategy_name \o ":" \o ToString(tiempo)

\* An Optional[List] of quick replies; a quick reply is named by its value.
NoneQR == [is_none |-> TRUE, items |-> <<>>]
QR(items) == [is_none |-> FALSE, items |-> items]

greeting_quick_replies(locale) ==
    QR(<<"bored_val@" \o Lang(locale), "frustrated_val@" \o Lang(locale),
         "anxious_val@" \o Lang(locale), "distracted_val@" \o Lang(locale)>>)
retry_quick_replies(locale) ==
    QR(<<"surprise_val@" \o Lang(locale), "short_val@" \o Lang(locale),
         "relaxed_val@" \o Lang(locale)>>)
time_quick_replies(locale) ==
    QR(<<"10_min_val@" \o Lang(locale), "15_min_val@" \o Lang(locale),
         "25_min_val@" \o Lang(locale), "45_min_val@" \o Lang(locale)>>)
set_time_quick_replies ==
    QR(<<"__set_time_15__", "__set_time_25__", "__set_time_45__", "__set_time_60__">>)
validation_quick_replies == QR(<<"__accept_strategy__", "__reject_strategy__">>)

\* estrategia['template'].format(tiempo=..., tema=..., ...)
FormatTemplate(template, tiempo, tema) ==
    template \o ":" \o ToString(tiempo) \o ":" \o tema

\* ------------------------------------------------------------------- inputs
Cmd(k) == [kind |-> k, val |-> "", words |-> {}]
SetTime(v, w) == [kind |-> "set_time", val |-> v, words |-> w]
Free(w) == [kind |-> "free", val |-> "", words |-> w]
NoText == [kind |-> "", val |-> "", words |-> {}]

\* int(val) of the __set_time_N__ command: defined on the numerals only
IntOf == [v \in {"0", "3", "25"} |-> CASE v = "0" -> 0 [] v = "3" -> 3 [] OTHER -> 25]

Texts ==
    { Cmd("__greeting__"), Cmd("__accept_strategy__"), Cmd("__reject_strategy__"),
      SetTime("25", {"25"}), SetTime("3", {}),
      Free({"crisis"}), Free({"crisis", "reiniciar"}), Free({"reiniciar"}),
      Free({"ansiedad", "ensayo", "hoy", "escribir"}), Free({"10"}) }
Histories == { <<>>, <<"m">> }
Locales == {"es", "en"}

\* Stage-2 answers of the Generator explored by the orchestrator model
CrisisResponses ==
    { Raise, BadJson,
      Json([is_crisis |-> TRUE, confidence |-> 90]),
      Json([is_crisis |-> TRUE, confidence |-> 70]),
      Json([is_crisis |-> FALSE, confidence |-> 90]),
      Json([confidence |-> 90]) }
\* extraction answers of the Generator explored by the orchestrator model
ExtractResponses ==
    { Raise, BadJson,
      Json([sentimiento |-> "aburrimiento", sentimiento_otro |-> "detalle",
            ramo |-> "calculo"]) }
Fragments == {"", "a"}
Replies == {"ab"}

\* The catalog file app/data/strategies.json is data outside the code: the
\* model runs on this two-entry catalog.
Catalog ==
    << [nombre |-> "Pomodoro", nombre_en |-> "Pomodoro Sprint",
        descripcion |-> "d1", descripcion_en |-> "d1_en",
        template |-> "t1", template_en |-> "t1_en",
        pasos |-> <<"p1">>, steps_en |-> <<"p1_en">>,
        tiempo_minimo |-> 10, tareas |-> {"cualquiera"}, fases |-> {"cualquiera"},
        category |-> "PREVENCION_VIGILANT", nivel_recomendado |-> "down"],
       [nombre |-> "Lluvia de ideas",
        descripcion |-> "d2", template |-> "t2", pasos |-> <<"p2">>,
        tiempo_minimo |-> 25, tareas |-> {"ensayo"},
        fases |-> {"ideacion", "planificacion", "ejecucion"},
        category |-> "PROMOCION_EAGER", nivel_recomendado |-> "up"] >>

\* -------------------------------------------------------------------- state
VARIABLES
    client,          \* module-level AsyncGroq client: "client" or None
    STRATEGIES,      \* module-level catalog list
    store,           \* current_state persisted for the session
    served,          \* requests answered so far
    pc,              \* position of the running turn
    handler,         \* "turn" (handle_user_turn) or "stream" (handle_user_turn_stream)
    session,         \* the handler's session object
    user_text, user_locale,
    events,          \* events yielded so far by the stream handler
    ret,             \* <<tuple>> returned by handle_user_turn, <<>> before
    raised,          \* an exception left the handler
    branch,          \* terminal rule that fired in this turn
    crisis,          \* result of detect_crisis in this turn
    gen_calls,       \* Generator calls issued in this turn, in order
    selector_calls,  \* arguments of the seleccionar_estrategia calls of this turn
    extracted,       \* slot extraction ran in this turn
    estrategia,      \* the dict selected in this turn
    full_reply,      \* text accumulated by the stream handler
    gen_failed       \* the reply call of this turn failed

vars == <<client, STRATEGIES, store, served, pc, handler, session, user_text,
          user_locale, events, ret, raised, branch, crisis,
          gen_calls, selector_calls, extracted, estrategia, full_reply,
          gen_failed>>

Ev(e, d) == [event |-> e, data |-> d]

\* the parts of the state that belong to one running turn, before it starts
TurnIdle ==
    /\ pc = "idle" /\ handler = "" /\ user_text = NoText
    /\ user_locale = "es"
    /\ events = <<>> /\ ret = <<>> /\ raised = FALSE /\ branch = ""
    /\ crisis = EmptyDict /\ gen_calls = <<>> /\ selector_calls = <<>>
    /\ extracted = FALSE /\ estrategia = EmptyDict /\ full_reply = ""
    /\ gen_failed = FALSE

Init ==
    /\ client \in {"client", None}
    /\ STRATEGIES = Catalog
    /\ store = SessionStateSchema("sid", "uid")
    /\ served = 0
    /\ session = SessionStateSchema("sid", "uid")
    /\ TurnIdle

\* ------------------------------------------------------- control commands
RejectStrategy_KeepsName(sess) ==
    LET rejections == Get(sess.metadata, "strategy_rejections", 0) + 1
        m1 == Put(sess.metadata, "strategy_rejections", rejections)
        rejected_list == Get(m1, "rejected_strategies", <<>>)
        m2 == IF TruthyStr(sess.last_strategy) /\ ~InSeq(sess.last_strategy, rejected_list)
              THEN Put(m1, "rejected_strategies", Append(rejected_list, sess.last_strategy))
              ELSE m1
    IN  IF rejections >= 2
        THEN [redirect |-> TRUE,
              session |-> [sess EXCEPT !.metadata =
                              Put(Put(m2, "strategy_rejections", 0), "rejected_strategies", <<>>)]]
        ELSE [redirect |-> FALSE,
              session |-> [sess EXCEPT !.metadata = m2, !.strategy_given = FALSE]]

\* The __reject_strategy__ command (the same statements in both handlers).
\* Result: the mutated session and whether the redirect branch is taken.
RejectStrategy(sess) ==
    LET rejections == Get(sess.metadata, "strategy_rejections", 0) + 1
        m1 == Put(sess.metadata, "strategy_rejections", rejections)
        rejected_list == Get(m1, "rejected_strategies", <<>>)
        m2 == IF TruthyStr(sess.last_strategy) /\ ~InSeq(sess.last_strategy, rejected_list)
              THEN Put(m1, "rejected_strategies", Append(rejected_list, sess.last_strategy))
              ELSE m1
    IN  IF rejections >= 2
        THEN [redirect |-> TRUE,
              session |-> [sess EXCEPT !.metadata =
                              Put(Put(m2, "strategy_rejections", 0), "rejected_strategies", <<>>)]]
        ELSE [redirect |-> FALSE,
              session |-> [sess EXCEPT !.metadata = m2, !.strategy_given = FALSE,
                                       !.last_strategy = None]]

Tuple(reply, sess, qr, meta) ==
    [reply |-> reply, session |-> sess, quick_replies |-> qr, metadata |-> meta]

\* Commands of handle_user_turn.  Result: terminal = FALSE when the text is
\* no command of this handler, else the returned tuple and the rule's name.
TurnCommand(sess, text, locale) ==
    IF text.kind = "__greeting__" THEN
        LET s1 == [sess EXCEPT !.metadata = Put(@, "greeted", TRUE)]
        IN  [terminal |-> TRUE, branch |-> "cmd_greeting",
             ret |-> Tuple(get_message("greeting", locale), s1,
                           greeting_quick_replies(locale), EmptyDict)]
    ELSE IF text.kind = "__accept_strategy__" THEN
        LET strategy_name == OrStr(sess.last_strategy, "Estrategia")
            tiempo == OrInt(sess.slots.tiempo_bloque, 15)
        IN  [terminal |-> TRUE, branch |-> "cmd_accept",
             ret |-> Tuple(get_message_accepted(locale, strategy_name, tiempo), sess, NoneQR,
                           [strategy |-> strategy_name,
                            strategy_steps |-> Get(sess.metadata, "last_strategy_steps", <<>>),
                            timer_config |-> [duration_minutes |-> tiempo,
                                              label |-> strategy_name]])]
    ELSE IF text.kind = "__reject_strategy__" THEN
        LET r == RejectStrategy(sess)
        IN  IF r.redirect
            THEN [terminal |-> TRUE, branch |-> "cmd_reject_redirect",
                  ret |-> Tuple(get_message("strategy_rejected_max", locale), r.session,
                                NoneQR, [redirect |-> "wellness"])]
            ELSE [terminal |-> TRUE, branch |-> "cmd_reject_retry",
                  ret |-> Tuple(get_message("strategy_rejected_retry", locale), r.session,
                                retry_quick_replies(locale), EmptyDict)]
    ELSE [terminal |-> FALSE, branch |-> "", ret |-> Tuple("", sess, NoneQR, EmptyDict)]

SessionStateEv(sess) == Ev("session_state", sess)
DoneEv == Ev("done", EmptyDict)
GuardrailEv(text, qr) == Ev("guardrail", [text |-> text, quick_replies |-> qr])

\* Commands of handle_user_turn_stream, after the start event.  Result:
\* terminal = FALSE when no command ends the turn, else the session at the
\* end of the turn, the events yielded after start and the rule's name.
StreamCommand(sess, text, locale) ==
    LET set_ok == text.kind = "set_time" /\ text.val \in DOMAIN IntOf
        \* __set_time_N__ stores int(N) and goes on as __accept_strategy__
        s0 == IF set_ok THEN [sess EXCEPT !.slots.tiempo_bloque = IntOf[text.val]]
              ELSE sess
        kind == IF set_ok THEN "__accept_strategy__" ELSE text.kind
    IN
    IF text.kind = "__greeting__" THEN
        LET s1 == [sess EXCEPT !.metadata = Put(@, "greeted", TRUE)]
        IN  [terminal |-> TRUE, branch |-> "cmd_greeting", session |-> s1,
             events |-> << GuardrailEv(get_message("greeting", locale),
                                       greeting_quick_replies(locale)),
                           SessionStateEv(s1), DoneEv >>]
    ELSE IF kind = "__accept_strategy__" THEN
        LET tiempo == s0.slots.tiempo_bloque
            strategy_name == OrStr(s0.last_strategy, "Estrategia")
        IN  IF ~TruthyInt(tiempo) \/ tiempo < 5
            THEN [terminal |-> TRUE, branch |-> "cmd_accept_ask_time", session |-> s0,
                  events |-> << GuardrailEv(get_message("ask_time_pre_timer", locale),
                                            set_time_quick_replies),
                                DoneEv >>]
            ELSE [terminal |-> TRUE, branch |-> "cmd_accept", session |-> s0,
                  events |-> << GuardrailEv(get_message_accepted(locale, strategy_name, tiempo),
                                            NoneQR),
                                Ev("metadata",
                                   [strategy |-> strategy_name,
                                    strategy_steps |-> Get(s0.metadata, "last_strategy_steps", <<>>),
                                    timer_config |-> [duration_minutes |-> tiempo,
                                                      label |-> strategy_name]]),
                                SessionStateEv(s0), DoneEv >>]
    ELSE IF kind = "__reject_strategy__" THEN
        LET r == RejectStrategy(s0)
        IN  IF r.redirect
            THEN [terminal |-> TRUE, branch |-> "cmd_reject_redirect", session |-> r.session,
                  events |-> << GuardrailEv(get_message("strategy_rejected_max", locale), NoneQR),
                                Ev("metadata", [redirect |-> "wellness"]),
                                SessionStateEv(r.session), DoneEv >>]
            ELSE [terminal |-> TRUE, branch |-> "cmd_reject_retry", session |-> r.session,
                  events |-> << GuardrailEv(get_message("strategy_rejected_retry", locale),
                                            retry_quick_replies(locale)),
                                SessionStateEv(r.session), DoneEv >>]
    ELSE [terminal |-> FALSE, branch |-> "", session |-> s0, events |-> <<>>]

\* ---------------------------------------------------------- start of a turn
\* send_message rebuilds the session object from the persisted current_state
LoadSession(current_state) == current_state

BeginTurn(text, locale) ==
    LET c == TurnCommand(LoadSession(store), text, locale)
    IN  /\ pc = "idle"
        /\ served < MaxTurns
        /\ handler' = "turn"
        /\ user_text' = text /\ user_locale' = locale
        /\ IF c.terminal
           THEN /\ ret' = <<c.ret>> /\ session' = c.ret.session
                /\ branch' = c.branch /\ pc' = "done"
           ELSE /\ ret' = <<>> /\ session' = LoadSession(store)
                /\ branch' = "" /\ pc' = "crisis"
        /\ UNCHANGED <<client, served, STRATEGIES, store, events, raised, crisis, gen_calls,
                       selector_calls, extracted, estrategia, full_reply,
                       gen_failed>>

BeginStream(text, locale) ==
    LET s == LoadSession(store)
        c == StreamCommand(s, text, locale)
        start == Ev("start", [session_id |-> s.session_id])
    IN  /\ pc = "idle"
        /\ served < MaxTurns
        /\ handler' = "stream"
        /\ user_text' = text /\ user_locale' = locale
        /\ session' = c.session
        /\ events' = <<start>> \o c.events
        /\ branch' = c.branch
        /\ pc' = IF c.terminal THEN "done" ELSE "crisis"
        /\ UNCHANGED <<client, served, STRATEGIES, store, ret, raised, crisis, gen_calls,
                       selector_calls, extracted, estrategia, full_reply,
                       gen_failed>>

\* A deterministic answer that ends the turn: handle_user_turn returns
\* (text, session, quick replies, {}); the stream handler yields guardrail,
\* session_state, done.  gdata is the guardrail payload of the stream.
Guardrail(sess, text, qr, gdata, rule) ==
    /\ session' = sess
    /\ branch' = rule
    /\ pc' = "done"
    /\ IF handler = "turn"
       THEN /\ ret' = <<Tuple(text, sess, qr, EmptyDict)>>
            /\ UNCHANGED events
       ELSE /\ events' = events \o <<Ev("guardrail", gdata), SessionStateEv(sess), DoneEv>>
            /\ UNCHANGED ret

RestartSession_KeepsMetadata(sess) ==
    [SessionStateSchema(sess.session_id, sess.user_id) EXCEPT !.metadata = sess.metadata]

\* SessionStateSchema(user_id=session.user_id, session_id=session.session_id)
RestartSession(sess) == SessionStateSchema(sess.session_id, sess.user_id)

HasResetKeyword_Never(w) == FALSE

\* "reiniciar" in user_text.lower() or "reset" in user_text.lower()
HasResetKeyword(w) == "reiniciar" \in w

\* Crisis check, reset keyword and first-contact greeting of both handlers.
\* chat_history is the argument of the handler; this is the only place that
\* reads it.
DetectCrisisStep(resp, chat_history) ==
    LET w == user_text.words
        cr == detect_crisis(client, w, resp)
        plain(text, qr) == [text |-> text, quick_replies |-> qr]
    IN  /\ pc = "crisis"
        /\ crisis' = cr
        /\ gen_calls' = IF CrisisCallsGenerator(client, w)
                        THEN Append(gen_calls, "crisis") ELSE gen_calls
        /\ IF CrisisActedUpon(cr) THEN
               Guardrail(session, get_message("crisis_msg", user_locale), NoneQR,
                         [text |-> get_message("crisis_msg", user_locale),
                          quick_replies |-> NoneQR, is_crisis |-> TRUE],
                         "crisis")
           ELSE IF HasResetKeyword(w) THEN
               Guardrail(RestartSession(session),
                         get_message("restart_msg", user_locale),
                         greeting_quick_replies(user_locale),
                         plain(get_message("restart_msg", user_locale),
                               greeting_quick_replies(user_locale)),
                         "reset")
           ELSE IF chat_history = <<>> /\ ~Get(session.metadata, "greeted", FALSE) THEN
               Guardrail([session EXCEPT !.metadata = Put(@, "greeted", TRUE)],
                         get_message("greeting", user_locale),
                         greeting_quick_replies(user_locale),
                         plain(get_message("greeting", user_locale),
                               greeting_quick_replies(user_locale)),
                         "greeting")
           ELSE /\ pc' = "extract"
                /\ UNCHANGED <<session, branch, ret, events>>
        /\ UNCHANGED <<client, served, STRATEGIES, store, handler, user_text,
                       user_locale, raised, selector_calls, extracted, estrategia,
                       full_reply, gen_failed>>

\* I18N adaptation of the selected dict (user_locale == "en"): four item
\* assignments; the defaults estrategia["descripcion"] and
\* estrategia["template"] are evaluated before .get and raise KeyError when
\* the key is missing.  ok = FALSE: KeyError, d is the dict at that point.
Localize(d0, locale) ==
    IF locale # "en" THEN [ok |-> TRUE, d |-> d0]
    ELSE LET d1 == Put(d0, "nombre", Get(d0, "nombre_en", d0["nombre"]))
         IN  IF ~Has(d1, "descripcion") THEN [ok |-> FALSE, d |-> d1]
             ELSE LET d2 == Put(d1, "descripcion", Get(d1, "descripcion_en", d1["descripcion"]))
                  IN  IF ~Has(d2, "template") THEN [ok |-> FALSE, d |-> d2]
                      ELSE LET d3 == Put(d2, "template", Get(d2, "template_en", d2["template"]))
                           IN  [ok |-> TRUE,
                                d |-> Put(d3, "pasos", Get(d3, "steps_en", Get(d3, "pasos", <<>>)))]

\* the ready-for-strategy test of both handlers
ListoParaEstrategia(slots) ==
    /\ TruthyStr(slots.sentimiento) /\ TruthyStr(slots.tipo_tarea)
    /\ TruthyStr(slots.plazo) /\ TruthyStr(slots.fase)
    /\ TruthyInt(slots.tiempo_bloque)

TimeGate_Never(sess) == FALSE

\* the time-gate test of both handlers
TimeGate(sess) ==
    /\ TruthyStr(sess.slots.sentimiento) /\ TruthyStr(sess.slots.tipo_tarea)
    /\ TruthyStr(sess.slots.plazo) /\ TruthyStr(sess.slots.fase)
    /\ ~TruthyInt(sess.slots.tiempo_bloque)
    /\ ~sess.strategy_given

FeelingGate_NoLimit(sess) == ~TruthyStr(sess.slots.sentimiento)

\* the feeling-gate test of both handlers (after iteration += 1)
FeelingGate(sess) == ~TruthyStr(sess.slots.sentimiento) /\ sess.iteration <= 3

TiempoDisponible_Default(slots) == 15

\* the time budget handed to the selector: session.slots.tiempo_bloque or 15
TiempoDisponible(slots) == OrInt(slots.tiempo_bloque, 15)

\* CASO A up to the Generator call: quadrant, selection, I18N adaptation,
\* session update, system prompt.  ok = FALSE: a KeyError left the handler.
PrepareStrategy(sess, catalog, locale) ==
    LET q == infer_q2_q3(sess.slots)
        m1 == Put(Put(Put(sess.metadata, "Q2", q.Q2), "Q3", q.Q3), "enfoque", q.enfoque)
        s1 == [sess EXCEPT !.metadata = m1]
        td == TiempoDisponible(sess.slots)
        i1 == seleccionar_estrategia(catalog, q.enfoque, q.Q3, sess.slots.tipo_tarea,
                                     sess.slots.fase, td, sess.slots.sentimiento, <<>>)
        rejected == Get(m1, "rejected_strategies", <<>>)
        again == InSeq(StrategyAt(catalog, i1)["nombre"], rejected)
        i2 == IF again
              THEN seleccionar_estrategia(catalog, q.enfoque, q.Q3, sess.slots.tipo_tarea,
                                          sess.slots.fase, td, sess.slots.sentimiento, rejected)
              ELSE i1
        calls == <<[tiempo_disponible |-> td, excluir |-> <<>>]>>
                 \o (IF again THEN <<[tiempo_disponible |-> td, excluir |-> rejected]>>
                     ELSE <<>>)
        loc == Localize(StrategyAt(catalog, i2), locale)
        d == loc.d
        \* the dict selected is the catalog's own object: item assignment
        \* writes into the catalog
        cat2 == IF i2 = 0 THEN catalog ELSE [catalog EXCEPT ![i2] = d]
        s2 == [s1 EXCEPT !.last_strategy = d["nombre"], !.strategy_given = TRUE,
                         !.metadata = Put(@, "last_strategy_steps", Get(d, "pasos", <<>>))]
    IN  IF ~loc.ok
        THEN [ok |-> FALSE, session |-> s1, catalog |-> cat2, estrategia |-> d,
              calls |-> calls]
        ELSE IF ~Has(d, "descripcion") \/ ~Has(d, "template")
        THEN [ok |-> FALSE, session |-> s2, catalog |-> cat2, estrategia |-> d,
              calls |-> calls]
        ELSE [ok |-> TRUE, session |-> s2, catalog |-> cat2, estrategia |-> d,
              calls |-> calls]

\* Slot extraction, the two gates and the choice between strategy proposal
\* and free conversation, up to the Generator call of the reply.
\* v is the random.choice of the time question.
ExtractStep(resp, v) ==
    LET w == user_text.words
        new_slots == extract_slots_with_llm(client, w, session.slots, resp)
        s1 == [session EXCEPT !.slots = new_slots, !.iteration = @ + 1]
        calls1 == IF ExtractCallsGenerator(client) THEN Append(gen_calls, "extract")
                  ELSE gen_calls
        calls2 == IF client # None THEN Append(calls1, "reply") ELSE calls1
        p == PrepareStrategy(s1, STRATEGIES, user_locale)
        plain(text, qr) == [text |-> text, quick_replies |-> qr]
    IN  /\ pc = "extract"
        /\ extracted' = TRUE
        /\ IF FeelingGate(s1) THEN
               /\ Guardrail(s1, get_message("ask_sentiment", user_locale),
                            greeting_quick_replies(user_locale),
                            plain(get_message("ask_sentiment", user_locale),
                                  greeting_quick_replies(user_locale)),
                            "feeling_gate")
               /\ gen_calls' = calls1
               /\ UNCHANGED <<STRATEGIES, raised, selector_calls, estrategia>>
           ELSE IF TimeGate(s1) THEN
               /\ Guardrail(s1, get_message_variation("ask_time_variations", user_locale, v),
                            time_quick_replies(user_locale),
                            plain(get_message_variation("ask_time_variations", user_locale, v),
                                  time_quick_replies(user_locale)),
                            "time_gate")
               /\ gen_calls' = calls1
               /\ UNCHANGED <<STRATEGIES, raised, selector_calls, estrategia>>
           ELSE IF ListoParaEstrategia(s1.slots) /\ ~s1.strategy_given THEN
               /\ session' = p.session
               /\ STRATEGIES' = p.catalog
               /\ selector_calls' = p.calls
               /\ estrategia' = p.estrategia
               /\ branch' = "strategy"
               /\ raised' = ~p.ok
               /\ pc' = IF p.ok THEN "generate" ELSE "done"
               /\ gen_calls' = IF p.ok THEN calls2 ELSE calls1
               /\ UNCHANGED <<ret, events>>
           ELSE
               /\ session' = s1
               /\ branch' = "free"
               /\ pc' = "generate"
               /\ gen_calls' = calls2
               /\ UNCHANGED <<STRATEGIES, raised, selector_calls, estrategia, ret, events>>
        /\ UNCHANGED <<client, served, store, handler, user_text, user_locale,
                       crisis, full_reply, gen_failed>>

\* ------------------------------------------------ reply of handle_user_turn
TiempoVar == OrInt(session.slots.tiempo_bloque, 15)

TurnReturn(reply) ==
    IF branch = "strategy"
    THEN Tuple(reply, session, validation_quick_replies,
               [strategy |-> estrategia["nombre"],
                strategy_steps |-> Get(estrategia, "pasos", <<>>)])
    ELSE Tuple(reply, session, NoneQR, EmptyDict)

\* the Generator returned a completion
GenerateTurnOk(text) ==
    /\ pc = "generate" /\ handler = "turn"
    /\ client # None
    /\ ret' = <<TurnReturn(text)>>
    /\ pc' = "done"
    /\ UNCHANGED <<client, served, STRATEGIES, store, handler, session, user_text,
                   user_locale, events, raised, branch, crisis, gen_calls,
                   selector_calls, extracted, estrategia, full_reply, gen_failed>>

GenerateTurnFail_Propagates ==
    /\ pc = "generate" /\ handler = "turn"
    /\ gen_failed' = TRUE
    /\ raised' = TRUE
    /\ pc' = "done"
    /\ UNCHANGED <<client, served, STRATEGIES, store, handler, session, user_text,
                   user_locale, events, ret, branch, crisis, gen_calls,
                   selector_calls, extracted, estrategia, full_reply>>

\* the except branch: client is None (AttributeError) or the call raised
GenerateTurnFail ==
    /\ pc = "generate" /\ handler = "turn"
    /\ gen_failed' = TRUE
    /\ ret' = <<TurnReturn(IF branch = "strategy"
                           THEN FormatTemplate(estrategia["template"], TiempoVar,
                                               session.slots.tipo_tarea)
                           ELSE "fallback_error@es")>>
    /\ pc' = "done"
    /\ UNCHANGED <<client, served, STRATEGIES, store, handler, session, user_text,
                   user_locale, events, raised, branch, crisis, gen_calls,
                   selector_calls, extracted, estrategia, full_reply>>

\* ----------------------------------------- reply of handle_user_turn_stream
\* the events after the token loop
StreamTail(reply) ==
    IF branch = "strategy"
    THEN << Ev("quick_reply", <<>>),
            Ev("metadata", [strategy |-> estrategia["nombre"],
                            strategy_description |-> estrategia["descripcion"],
                            strategy_steps |-> Get(estrategia, "pasos", <<>>),
                            full_reply |-> reply]),
            SessionStateEv(session), DoneEv >>
    ELSE << Ev("metadata", [full_reply |-> reply]),
            SessionStateEv(session), DoneEv >>

TokenEv(text) == Ev("token", [text |-> text])

\* one chunk of the Generator stream; a chunk without content is skipped
StreamChunk(frag) ==
    /\ pc = "generate" /\ handler = "stream"
    /\ client # None
    /\ Len(full_reply) < MaxFrags
    /\ IF frag # ""
       THEN /\ full_reply' = full_reply \o frag
            /\ events' = Append(events, TokenEv(frag))
       ELSE UNCHANGED <<full_reply, events>>
    /\ UNCHANGED <<client, served, STRATEGIES, store, pc, handler, session, user_text,
                   user_locale, ret, raised, branch, crisis, gen_calls,
                   selector_calls, extracted, estrategia, gen_failed>>

\* the Generator stream ended
StreamEnd ==
    /\ pc = "generate" /\ handler = "stream"
    /\ client # None
    /\ events' = events \o StreamTail(full_reply)
    /\ pc' = "done"
    /\ UNCHANGED <<client, served, STRATEGIES, store, handler, session, user_text,
                   user_locale, ret, raised, branch, crisis, gen_calls, selector_calls,
                   extracted, estrategia, full_reply, gen_failed>>

\* the text of the except branch of the stream handler
StreamFallback ==
    IF branch = "strategy"
    THEN FormatTemplate(estrategia["template"], TiempoVar,
                        OrStr(session.slots.tipo_tarea, "tu tarea"))
    ELSE get_message("fallback_error", user_locale)

\* the tokens the except branch yields: the strategy branch holds the
\* assignment and the yield twice
StreamFallbackTokens ==
    IF branch = "strategy"
    THEN <<TokenEv(StreamFallback), TokenEv(StreamFallback)>>
    ELSE <<TokenEv(StreamFallback)>>

\* the except branch: client is None, the call raised, or the stream broke
StreamFail ==
    /\ pc = "generate" /\ handler = "stream"
    /\ gen_failed' = TRUE
    /\ full_reply' = StreamFallback
    /\ events' = events \o StreamFallbackTokens \o StreamTail(StreamFallback)
    /\ pc' = "done"
    /\ UNCHANGED <<client, served, STRATEGIES, store, handler, session, user_text,
                   user_locale, ret, raised, branch, crisis, gen_calls, selector_calls,
                   extracted, estrategia>>

\* ------------------------------------------------------------ end of a turn
ResetTurn ==
    /\ pc' = "idle" /\ handler' = "" /\ user_text' = NoText
    /\ user_locale' = "es"
    /\ events' = <<>> /\ ret' = <<>> /\ raised' = FALSE /\ branch' = ""
    /\ crisis' = EmptyDict /\ gen_calls' = <<>> /\ selector_calls' = <<>>
    /\ extracted' = FALSE /\ estrategia' = EmptyDict /\ full_reply' = ""
    /\ gen_failed' = FALSE
    /\ session' = store'

\* send_message persists the returned session; an exception of the handler
\* becomes an HTTP 500 before the update
PersistTurn ==
    /\ pc = "done" /\ handler = "turn"
    /\ store' = IF raised THEN store ELSE ret[1].session
    /\ ResetTurn
    /\ served' = served + 1
    /\ UNCHANGED <<client, STRATEGIES>>

\* the payloads of the session_state events of the turn
SessionStatePayloads ==
    SelectSeq(events, LAMBDA e : e.event = "session_state")

\* the consumer of the stream persists the session carried by session_state
PersistStream ==
    /\ pc = "done" /\ handler = "stream"
    /\ store' = IF SessionStatePayloads = <<>> THEN store
                ELSE SessionStatePayloads[Len(SessionStatePayloads)].data
    /\ ResetTurn
    /\ served' = served + 1
    /\ UNCHANGED <<client, STRATEGIES>>

\* ------------------------------------------------------------ specification
Next ==
    \/ \E text \in Texts, locale \in Locales : BeginTurn(text, locale)
    \/ \E text \in Texts, locale \in Locales : BeginStream(text, locale)
    \/ \E resp \in (IF CrisisCallsGenerator(client, user_text.words)
                    THEN CrisisResponses ELSE {Raise}),
          hist \in Histories :
          DetectCrisisStep(resp, hist)
    \/ \E resp \in (IF ExtractCallsGenerator(client) THEN ExtractResponses ELSE {Raise}),
          v \in 1..NumTimeVariations :
          ExtractStep(resp, v)
    \/ \E text \in Replies : GenerateTurnOk(text)
    \/ GenerateTurnFail
    \/ \E frag \in Fragments : StreamChunk(frag)
    \/ StreamEnd
    \/ StreamFail
    \/ PersistTurn
    \/ PersistStream

Spec == Init /\ [][Next]_vars


\* ===================================================================== claims
\* vocabulary of the properties below
EventNames == [i \in 1..Len(events) |-> events[i].event]
StreamDone == pc = "done" /\ handler = "stream"
TurnDone == pc = "done" /\ handler = "turn"
GuardrailBranches ==
    { "cmd_greeting", "cmd_accept", "cmd_accept_ask_time", "cmd_reject_redirect",
      "cmd_reject_retry", "crisis", "reset", "greeting", "feeling_gate", "time_gate" }
ReplyBranches == { "strategy", "free" }
Repeat(x, k) == [i \in 1..k |-> x]
Opt(b, x) == IF b THEN <<x>> ELSE <<>>
\* start, tokens, at most one quick_reply, at most one metadata, session_state, done
IsReplyOrder(n) ==
    \E k \in 0..Len(n), q \in BOOLEAN, m \in BOOLEAN :
        n = <<"start">> \o Repeat("token", k) \o Opt(q, "quick_reply")
            \o Opt(m, "metadata") \o <<"session_state", "done">>
TokenTexts ==
    { events[i].data.text : i \in { j \in 1..Len(events) : events[j].event = "token" } }
\* the text the except branch of the running turn substitutes for the reply
ExpectedFallback ==
    IF branch = "strategy"
    THEN FormatTemplate(estrategia["template"], session.slots.tiempo_bloque,
                        session.slots.tipo_tarea)
    ELSE IF handler = "turn" THEN get_message("fallback_error", "es")
    ELSE get_message("fallback_error", user_locale)
SlotFields == { "sentimiento", "sentimiento_otro", "tipo_tarea", "ramo", "plazo",
                "fase", "tiempo_bloque" }
IsControlCommand ==
    \/ user_text.kind \in {"__greeting__", "__accept_strategy__", "__reject_strategy__"}
    \/ handler = "stream" /\ user_text.kind = "set_time" /\ user_text.val \in DOMAIN IntOf
GuardRan == crisis # EmptyDict

\* C1: every finished turn of handle_user_turn_stream has start as first
\* event, done as last event and session_state immediately before done.
C1_StartSessionStateDone ==
    StreamDone =>
        /\ Len(events) >= 3
        /\ EventNames[1] = "start"
        /\ EventNames[Len(events)] = "done"
        /\ EventNames[Len(events) - 1] = "session_state"

\* C2: a stream turn ended by a command, the crisis rule, the reset keyword,
\* the greeting, the feeling gate or the time gate emits exactly start,
\* guardrail, session_state, done.
C2_GuardrailTurnIsFourEvents ==
    StreamDone /\ branch \in GuardrailBranches =>
        EventNames = <<"start", "guardrail", "session_state", "done">>

\* C3: a stream turn that reaches strategy proposal or free conversation
\* emits start, tokens, at most one quick_reply, at most one metadata,
\* session_state, done in this order, and no other turn emits a token.
C3_ReplyTurnOrder ==
    StreamDone =>
        /\ branch \in ReplyBranches => IsReplyOrder(EventNames)
        /\ branch \notin ReplyBranches => TokenTexts = {}

\* C4: when the Generator call of the reply fails (strategy proposal or free
\* conversation) the turn does not fail: handle_user_turn returns a tuple
\* whose reply is the fallback text, handle_user_turn_stream emits the
\* fallback as a token and ends with session_state, done; the session that
\* is returned carries the mutations of the turn.
C4_GeneratorFailureKeepsTurn ==
    /\ pc = "done" /\ gen_failed =>
          /\ ~raised
          /\ branch \in ReplyBranches
          /\ session.iteration = store.iteration + 1
          /\ branch = "strategy" =>
                /\ session.strategy_given
                /\ session.last_strategy = estrategia["nombre"]
          /\ handler = "turn" =>
                /\ Len(ret) = 1
                /\ ret[1].reply = ExpectedFallback
                /\ ret[1].session = session
          /\ handler = "stream" =>
                /\ ExpectedFallback \in TokenTexts
                /\ Len(events) >= 3
                /\ events[Len(events) - 1] = SessionStateEv(session)
                /\ events[Len(events)] = DoneEv
    \* an unavailable Generator is a failure of the reply call
    /\ pc = "done" /\ branch \in ReplyBranches /\ client = None /\ ~raised => gen_failed

C4_Witness ==
    /\ StreamDone /\ gen_failed /\ branch = "strategy" /\ client # None
    /\ Len(events) >= 2 /\ events[2] = TokenEv("a")

\* C5: slot extraction never turns a known field (feeling, feeling detail,
\* task type, subject, deadline, work phase, time) into null.
C5_ExtractionKeepsKnownFields ==
    [][ pc = "extract" =>
            \A f \in SlotFields :
                ~IsNull(session.slots, f) => ~IsNull(session'.slots, f) ]_vars

\* C6: the Strategy Selector is called, and strategy_given becomes true, only
\* with the time slot set, and every selector call gets the stored slot value
\* as its time budget.
C6_SelectorOnlyWithKnownTime ==
    /\ selector_calls # <<>> =>
          /\ session.slots.tiempo_bloque # NoneInt
          /\ \A i \in 1..Len(selector_calls) :
                selector_calls[i].tiempo_disponible = session.slots.tiempo_bloque
    /\ session.strategy_given /\ ~store.strategy_given =>
          session.slots.tiempo_bloque # NoneInt

C6_Witness ==
    /\ pc = "done" /\ branch = "strategy" /\ ~raised
    /\ Len(selector_calls) = 2 /\ session.slots.tiempo_bloque = 25
    /\ session.strategy_given /\ ~store.strategy_given

\* C7: for a text that matches a crisis keyword detect_crisis never returns
\* is_crisis = false.
C7_KeywordNeverNegative ==
    GuardRan /\ CrisisRegexMatches(user_text.words) =>
        ~(Has(crisis, "is_crisis") /\ crisis["is_crisis"] = FALSE)

\* C8: for a text that matches a crisis keyword the result of detect_crisis
\* is a parsed answer with is_crisis and confidence, or else is_crisis = true
\* with confidence 0.5.
C8_FailSafeOnUnusableAnswer ==
    GuardRan /\ CrisisRegexMatches(user_text.words) =>
        \/ Has(crisis, "is_crisis") /\ Has(crisis, "confidence")
        \/ crisis \in {NoLlmResult, LlmFailedResult}

\* C9: for a text that matches no crisis keyword detect_crisis returns
\* is_crisis = false with confidence 1.0 and the Generator is not called.
C9_NoKeywordShortCircuit ==
    GuardRan /\ ~CrisisRegexMatches(user_text.words) =>
        /\ crisis["is_crisis"] = FALSE
        /\ crisis["confidence"] = 100
        /\ ~InSeq("crisis", gen_calls)

C9_Witness ==
    /\ pc = "extract" /\ client # None
    /\ user_text = Free({"ansiedad", "ensayo", "hoy", "escribir"})
    /\ crisis = NoKeywordsResult

\* C10: a turn takes the crisis branch iff its text is no control command and
\* the guard returned is_crisis true with confidence > 0.7; that turn answers
\* the fixed safety message, leaves the session as it was loaded, runs no
\* slot extraction and makes no reply call.
C10_CrisisBranch ==
    pc \notin {"idle", "crisis"} =>
        /\ branch = "crisis" <=>
              /\ ~IsControlCommand
              /\ Has(crisis, "is_crisis") /\ crisis["is_crisis"] = TRUE
              /\ Has(crisis, "confidence") /\ crisis["confidence"] > 70
        /\ branch = "crisis" =>
              /\ session = store
              /\ ~extracted
              /\ gen_calls = <<"crisis">>
              /\ handler = "turn" =>
                    ret = <<Tuple(get_message("crisis_msg", user_locale), store,
                                  NoneQR, EmptyDict)>>
              /\ handler = "stream" =>
                    /\ events[2].data.text = get_message("crisis_msg", user_locale)
                    /\ events[3] = SessionStateEv(store)

C10_Witness ==
    /\ pc = "done" /\ branch = "crisis" /\ handler = "stream"
    /\ store.strategy_given /\ store.iteration > 0

CommandBranches ==
    { "cmd_greeting", "cmd_accept", "cmd_accept_ask_time", "cmd_reject_redirect",
      "cmd_reject_retry" }
PostExtractionBranches == { "feeling_gate", "time_gate", "strategy", "free" }

\* C11: a turn fires exactly one terminal rule, the first applicable one in
\* the order control command, acted-upon crisis, reset keyword, first-contact
\* greeting, feeling gate, time gate, strategy proposal, free conversation;
\* a command turn runs no crisis check, no extraction and no Generator call,
\* and an acted-upon crisis wins over a reset keyword in the same text.
C11_FirstApplicableRule ==
    pc = "done" =>
        LET cmd == IsControlCommand
            acted == /\ Has(crisis, "is_crisis") /\ crisis["is_crisis"] = TRUE
                     /\ Has(crisis, "confidence") /\ crisis["confidence"] > 70
            reset == "reiniciar" \in user_text.words
            four == /\ session.slots.sentimiento # None /\ session.slots.tipo_tarea # None
                    /\ session.slots.plazo # None /\ session.slots.fase # None
            feel == session.slots.sentimiento = None /\ session.iteration <= 3
            time == four /\ session.slots.tiempo_bloque = NoneInt /\ ~store.strategy_given
            ready == four /\ session.slots.tiempo_bloque # NoneInt /\ ~store.strategy_given
        IN  /\ branch \in CommandBranches \cup {"crisis", "reset", "greeting"}
                          \cup PostExtractionBranches
            /\ cmd <=> branch \in CommandBranches
            /\ cmd => crisis = EmptyDict /\ ~extracted /\ gen_calls = <<>>
            /\ (~cmd /\ acted) <=> branch = "crisis"
            /\ (~cmd /\ ~acted /\ reset) <=> branch = "reset"
            /\ branch = "crisis" => session = store
            /\ branch = "greeting" => ~Get(store.metadata, "greeted", FALSE)
            /\ branch \in {"crisis", "reset", "greeting"} => ~extracted
            /\ extracted <=> branch \in PostExtractionBranches
            /\ extracted =>
                  branch = IF feel THEN "feeling_gate"
                           ELSE IF time THEN "time_gate"
                           ELSE IF ready THEN "strategy"
                           ELSE "free"

C11_Witness ==
    /\ pc = "done" /\ branch = "crisis"
    /\ "reiniciar" \in user_text.words
    /\ store.iteration > 0 /\ store.strategy_given

SafetyFeelings == { "ansiedad_error", "baja_autoeficacia" }

\* C12: for a feeling of anxiety or low self-efficacy the quadrant values
\* that infer_q2_q3 returns, and that a strategy turn stores in the session
\* metadata, are Q2 = B, orientation prevencion_vigilant and level concrete.
C12_SafetyOverrideInQuadrant ==
    branch = "strategy" /\ session.slots.sentimiento \in SafetyFeelings =>
        /\ infer_q2_q3(session.slots).Q2 = "B"
        /\ infer_q2_q3(session.slots).enfoque = "prevencion_vigilant"
        /\ infer_q2_q3(session.slots).Q3 = "down"
        /\ session.metadata["Q2"] = "B"
        /\ session.metadata["enfoque"] = "prevencion_vigilant"
        /\ session.metadata["Q3"] = "down"

\* ------------------------------------------- the Strategy Selector on its own
\* seleccionar_estrategia called directly, on every catalog of at most
\* MaxCatalog distinct entries of this pool and on every argument tuple below.
Entry(n, tmin, tareas, fases, cat, niv) ==
    [nombre |-> n, descripcion |-> "d", template |-> "t", pasos |-> <<"p">>,
     tiempo_minimo |-> tmin, tareas |-> tareas, fases |-> fases,
     category |-> cat, nivel_recomendado |-> niv]
EntryPool ==
    { Entry("E1", 10, {"cualquiera"}, {"cualquiera"}, "PREVENCION_VIGILANT", "down"),
      Entry("E2", 25, {"ensayo"}, {"ideacion"}, "PROMOCION_EAGER", "up"),
      Entry("E3", 10, {"coding"}, {"cualquiera"}, "CONCRETO", "down"),
      Entry("E4", 25, {"cualquiera"}, {"revision"}, "PROMOCION_EAGER", "down"),
      Entry("E5", 10, {"cualquiera"}, {"cualquiera"}, "PROMOCION_EAGER", "up"),
      Entry("E6", 10, {"cualquiera"}, {"cualquiera"}, "ABSTRACTO", "up") }
Distinct(seq) == \A i, j \in 1..Len(seq) : i # j => seq[i] # seq[j]
SelectorCatalogs ==
    UNION { { c \in [1..n -> EntryPool] : Distinct(c) } : n \in 0..MaxCatalog }
SelectorArgs ==
    [ enfoque : {"promocion_eager", "prevencion_vigilant"},
      nivel : {"up", "down", "mixto"},
      tipo_tarea : {"ensayo", "coding"},
      fase : {"ideacion", "revision"},
      tiempo_disponible : {5, 10, 25},
      sentimiento : {None, "ansiedad_error"},
      excluir : { <<>>, <<"E1">>, <<"E1", "E2">> } ]

InitSelector ==
    /\ client = None
    /\ STRATEGIES \in SelectorCatalogs
    /\ store = SessionStateSchema("sid", "uid")
    /\ served = 0
    /\ session = SessionStateSchema("sid", "uid")
    /\ TurnIdle

\* one call of seleccionar_estrategia: the arguments and the dict returned
SelectStrategy(a) ==
    /\ pc = "idle"
    /\ pc' = "selected"
    /\ selector_calls' = <<a>>
    /\ estrategia' = StrategyAt(STRATEGIES,
                        seleccionar_estrategia(STRATEGIES, a.enfoque, a.nivel, a.tipo_tarea,
                                               a.fase, a.tiempo_disponible, a.sentimiento,
                                               a.excluir))
    /\ UNCHANGED <<client, served, STRATEGIES, store, handler, session, user_text,
                   user_locale, events, ret, raised, branch, crisis, gen_calls,
                   extracted, full_reply, gen_failed>>

NextSelector == \E a \in SelectorArgs : SelectStrategy(a)

SpecSelector == InitSelector /\ [][NextSelector]_vars

\* the filter the claim states, for the call recorded in selector_calls
FitsCall(e) ==
    LET a == selector_calls[1]
    IN  /\ e["tiempo_minimo"] <= a.tiempo_disponible
        /\ ~InSeq(e["nombre"], a.excluir)
        /\ (a.tipo_tarea \in e["tareas"] \/ "cualquiera" \in e["tareas"])
        /\ (a.fase \in e["fases"] \/ "cualquiera" \in e["fases"])

\* C13: seleccionar_estrategia returns the generic fallback only when no
\* catalog entry passes the filter, and otherwise a catalog entry within the
\* time budget, not excluded, and fitting the task type and the phase.
C13_SelectorRespectsFilter ==
    selector_calls # <<>> =>
        \/ /\ estrategia = GenericFallback
           /\ \A i \in 1..Len(STRATEGIES) : ~FitsCall(STRATEGIES[i])
        \/ /\ \E i \in 1..Len(STRATEGIES) : STRATEGIES[i] = estrategia
           /\ FitsCall(estrategia)

C13_Witness ==
    /\ selector_calls # <<>> /\ Len(STRATEGIES) = 3
    /\ STRATEGIES[1]["nombre"] = "E1" /\ STRATEGIES[2]["nombre"] = "E2"
    /\ selector_calls[1].excluir = <<"E1">>
    /\ selector_calls[1].tiempo_disponible = 10
    /\ estrategia["nombre"] = "E3"

\* C14: a strategy turn whose selection is the generic fallback completes:
\* no exception leaves the handler, handle_user_turn returns its tuple and
\* handle_user_turn_stream ends with session_state, done.
C14_GenericFallbackTurnCompletes ==
    pc = "done" /\ branch = "strategy" /\ estrategia = GenericFallback =>
        /\ ~raised
        /\ handler = "turn" => Len(ret) = 1
        /\ handler = "stream" =>
              /\ Len(events) >= 3
              /\ EventNames[Len(events) - 1] = "session_state"
              /\ EventNames[Len(events)] = "done"

\* C15: the redirect branch of __reject_strategy__ is taken only by the
\* second of two consecutive rejections of distinct proposed strategies: the
\* turn answers a pending proposal, one other strategy is on the exclusion
\* list, and the turn leaves the counter at 0 and the list empty.
C15_RedirectAfterTwoProposals ==
    pc = "done" /\ branch = "cmd_reject_redirect" =>
        /\ store.strategy_given /\ store.last_strategy # None
        /\ Get(store.metadata, "strategy_rejections", 0) = 1
        /\ Len(Get(store.metadata, "rejected_strategies", <<>>)) = 1
        /\ Get(store.metadata, "rejected_strategies", <<>>)[1] # store.last_strategy
        /\ session.metadata["strategy_rejections"] = 0
        /\ session.metadata["rejected_strategies"] = <<>>


\* C16: a strategy turn that completes has set strategy_given, stored the
\* selected strategy's name as last_strategy and its step list in the
\* metadata, and emits as quick replies exactly the accept / reject pair, in
\* both handlers.
C16_StrategyTurnEffects ==
    pc = "done" /\ branch = "strategy" /\ ~raised =>
        /\ session.strategy_given
        /\ session.last_strategy = estrategia["nombre"]
        /\ session.metadata["last_strategy_steps"] = Get(estrategia, "pasos", <<>>)
        /\ handler = "turn" => ret[1].quick_replies = validation_quick_replies
        /\ handler = "stream" =>
              \E i \in 1..Len(events) :
                  /\ events[i].event = "quick_reply"
                  /\ events[i].data = validation_quick_replies.items


TimeQuestions(locale) ==
    { "ask_time_variations@" \o Lang(locale) \o "#" \o ToString(v) :
          v \in 1..NumTimeVariations }

FourDurations(locale) ==
    [is_none |-> FALSE,
     items |-> << "10_min_val@" \o Lang(locale), "15_min_val@" \o Lang(locale),
                  "25_min_val@" \o Lang(locale), "45_min_val@" \o Lang(locale) >>]

\* the turn reached slot extraction and ended with feeling, task, deadline
\* and phase known, no time budget, and no strategy given before the turn
TimeGateCase ==
    /\ pc = "done" /\ extracted
    /\ session.slots.sentimiento # None /\ session.slots.tipo_tarea # None
    /\ session.slots.plazo # None /\ session.slots.fase # None
    /\ session.slots.tiempo_bloque = NoneInt
    /\ ~store.strategy_given

\* C17: a turn that passes the command, crisis, reset, greeting and feeling
\* rules with feeling, task, deadline and phase known, time unset and no
\* strategy given answers with the time question and exactly the four
\* duration quick replies 10, 15, 25, 45, runs no strategy selection, and
\* leaves strategy_given false and last_strategy unset.
C17_TimeGateAsksDuration ==
    TimeGateCase =>
        /\ branch = "time_gate" /\ ~raised
        /\ selector_calls = <<>> /\ estrategia = EmptyDict
        /\ ~session.strategy_given /\ session.last_strategy = None
        /\ handler = "turn" =>
              /\ Len(ret) = 1
              /\ ret[1].reply \in TimeQuestions(user_locale)
              /\ ret[1].quick_replies = FourDurations(user_locale)
              /\ ~ret[1].session.strategy_given
              /\ ret[1].session.last_strategy = None
        /\ handler = "stream" =>
              /\ Len(events) >= 3
              /\ events[Len(events) - 2].event = "guardrail"
              /\ events[Len(events) - 2].data.text \in TimeQuestions(user_locale)
              /\ events[Len(events) - 2].data.quick_replies = FourDurations(user_locale)
              /\ EventNames[Len(events) - 1] = "session_state"
              /\ EventNames[Len(events)] = "done"

C17_Witness ==
    /\ TimeGateCase /\ branch = "time_gate"
    /\ handler = "stream" /\ user_locale = "en"


\* the session a restart yields from the stored one: same identity, every
\* other attribute initial
FreshSession ==
    [session_id |-> store.session_id, user_id |-> store.user_id, iteration |-> 0,
     slots |-> [sentimiento |-> None, sentimiento_otro |-> None, tipo_tarea |-> None,
                ramo |-> None, plazo |-> None, fase |-> None,
                tiempo_bloque |-> NoneInt, nivel_urgencia |-> None,
                autoeficacia |-> None],
     last_strategy |-> None, strategy_given |-> FALSE,
     current_vibe |-> "NEUTRAL", conversation_phase |-> "initial",
     metadata |-> EmptyDict]

StandardGreetingReplies(locale) ==
    [is_none |-> FALSE,
     items |-> << "bored_val@" \o Lang(locale), "frustrated_val@" \o Lang(locale),
                  "anxious_val@" \o Lang(locale), "distracted_val@" \o Lang(locale) >>]

\* C18: a turn whose text holds a reset keyword and that no command and no
\* acted-upon crisis pre-empts yields, from any stored session, a session
\* with the same session id and user id and every other attribute initial,
\* with the restart text and the standard greeting quick replies.
C18_ResetYieldsFreshSession ==
    /\ pc = "done" /\ "reiniciar" \in user_text.words
    /\ branch \notin CommandBranches \cup {"crisis"}
    =>
        /\ branch = "reset" /\ ~raised
        /\ session = FreshSession
        /\ handler = "turn" =>
              ret = << [reply |-> "restart_msg@" \o Lang(user_locale),
                        session |-> FreshSession,
                        quick_replies |-> StandardGreetingReplies(user_locale),
                        metadata |-> EmptyDict] >>
        /\ handler = "stream" =>
              /\ Len(events) >= 3
              /\ events[Len(events) - 2] =
                     Ev("guardrail",
                        [text |-> "restart_msg@" \o Lang(user_locale),
                         quick_replies |-> StandardGreetingReplies(user_locale)])
              /\ events[Len(events) - 1] = SessionStateEv(FreshSession)
              /\ events[Len(events)] = DoneEv

C18_Witness ==
    /\ pc = "done" /\ branch = "reset"
    /\ store.iteration > 0 /\ store.strategy_given /\ store.last_strategy # None
    /\ store.slots.sentimiento # None /\ store.metadata # EmptyDict


\* C19: no turn modifies the strategy catalog: after any sequence of turns,
\* in any locale and either handler, every catalog entry equals its value
\* at load time.
C19_CatalogNeverModified == STRATEGIES = Catalog


\* ---------------------------------------------------------------------------
\* Two send_message requests on one session id, served by one event loop.
\* A request runs without interruption up to an await that reaches the
\* Generator; there another request may run.  pc, session and user_text hold
\* one value per request; ret is the sequence of results handle_user_turn
\* has returned.  The texts are free texts that reach slot extraction: no
\* command, no crisis keyword, no reset keyword; chat_history holds at least
\* the message the request has just inserted, so the greeting rule is off.
Requests == {1, 2}

ConcurrentTexts ==
    { Free({"ansiedad", "ensayo", "hoy", "escribir"}), Free({"10"}) }

InitConcurrent ==
    /\ client \in {"client", None}
    /\ STRATEGIES = Catalog
    /\ store = SessionStateSchema("sid", "uid")
    /\ served = 0
    /\ pc = [r \in Requests |-> "idle"]
    /\ session = [r \in Requests |-> SessionStateSchema("sid", "uid")]
    /\ user_text = [r \in Requests |-> NoText]
    /\ handler = "turn" /\ user_locale = "es"
    /\ events = <<>> /\ ret = <<>> /\ raised = FALSE /\ branch = ""
    /\ crisis = EmptyDict /\ gen_calls = <<>> /\ selector_calls = <<>>
    /\ extracted = FALSE /\ estrategia = EmptyDict /\ full_reply = ""
    /\ gen_failed = FALSE

\* handle_user_turn from slot extraction to the Generator call of the reply,
\* for locale "es": the session so far, whether the turn raised, and whether
\* a Generator call for the reply follows
ExtractAndGate(s0, w, resp) ==
    LET new_slots == extract_slots_with_llm(client, w, s0.slots, resp)
        s1 == [s0 EXCEPT !.slots = new_slots, !.iteration = @ + 1]
        p == PrepareStrategy(s1, STRATEGIES, "es")
    IN  IF FeelingGate(s1) \/ TimeGate(s1)
        THEN [raised |-> FALSE, generate |-> FALSE, session |-> s1]
        ELSE IF ListoParaEstrategia(s1.slots) /\ ~s1.strategy_given
        THEN [raised |-> ~p.ok, generate |-> p.ok, session |-> p.session]
        ELSE [raised |-> FALSE, generate |-> TRUE, session |-> s1]

\* the text passes the command, crisis and reset rules without a Generator call
ReachesExtraction(s0, text) ==
    /\ ~TurnCommand(s0, text, "es").terminal
    /\ ~CrisisCallsGenerator(client, text.words)
    /\ ~CrisisActedUpon(detect_crisis(client, text.words, Raise))
    /\ ~HasResetKeyword(text.words)

\* the end of a request: the update of chat_sessions.current_state with the
\* session returned, or HTTP 500 without the update when the handler raised
Finish(r, res) ==
    /\ store' = IF res.raised THEN store ELSE res.session
    /\ ret' = IF res.raised THEN ret ELSE Append(ret, res.session)
    /\ pc' = [pc EXCEPT ![r] = "idle"]
    /\ session' = [session EXCEPT ![r] = SessionStateSchema("sid", "uid")]
    /\ user_text' = [user_text EXCEPT ![r] = NoText]
    /\ served' = served + 1

Suspend(r, at, s, text) ==
    /\ pc' = [pc EXCEPT ![r] = at]
    /\ session' = [session EXCEPT ![r] = s]
    /\ user_text' = [user_text EXCEPT ![r] = text]
    /\ UNCHANGED <<store, ret, served>>

InFlight == { r \in Requests : pc[r] # "idle" }

\* send_message up to the first await that suspends: the read of
\* current_state, then handle_user_turn up to the extraction call.  Without
\* a client nothing suspends and the request runs to its end.
SendMessage(r, text) ==
    \E s0 \in {LoadSession(store)} :
        /\ pc[r] = "idle"
        /\ served + Cardinality(InFlight) < MaxTurns
        /\ ReachesExtraction(s0, text)
        /\ IF ExtractCallsGenerator(client)
           THEN Suspend(r, "extract", s0, text)
           ELSE \E res \in {ExtractAndGate(s0, text.words, Raise)} : Finish(r, res)
        /\ UNCHANGED <<client, STRATEGIES, handler, user_locale, events, raised,
                       branch, crisis, gen_calls, selector_calls, extracted,
                       estrategia, full_reply, gen_failed>>

\* the extraction call returned: gates and strategy selection; a guardrail
\* answer or an exception ends the request, else the reply call suspends it
ExtractResume(r, resp) ==
    /\ pc[r] = "extract"
    /\ \E res \in {ExtractAndGate(session[r], user_text[r].words, resp)} :
           IF res.generate
           THEN Suspend(r, "generate", res.session, user_text[r])
           ELSE Finish(r, res)
    /\ UNCHANGED <<client, STRATEGIES, handler, user_locale, events, raised,
                   branch, crisis, gen_calls, selector_calls, extracted,
                   estrategia, full_reply, gen_failed>>

\* the reply call returned or raised: handle_user_turn returns the session
\* either way and send_message persists it
GenerateResume(r) ==
    /\ pc[r] = "generate"
    /\ Finish(r, [raised |-> FALSE, generate |-> FALSE, session |-> session[r]])
    /\ UNCHANGED <<client, STRATEGIES, handler, user_locale, events, raised,
                   branch, crisis, gen_calls, selector_calls, extracted,
                   estrategia, full_reply, gen_failed>>

NextConcurrent ==
    \E r \in Requests :
        \/ \E text \in ConcurrentTexts : SendMessage(r, text)
        \/ \E resp \in ExtractResponses : ExtractResume(r, resp)
        \/ GenerateResume(r)

SpecConcurrent == InitConcurrent /\ [][NextConcurrent]_vars

\* C20: turns of one session never interleave between loading and persisting
\* the state, so no update is lost: once no request is in flight the stored
\* iteration counts every turn that returned (each of them reached slot
\* extraction and added 1).
C20_NoLostUpdate == InFlight = {} => store.iteration = Len(ret)


\* C21: both handlers implement the same decision tree: a stream turn that a
\* command ends is a turn that handle_user_turn, given the same stored
\* session, text and locale, ends with the same command rule, and the session
\* of the stream turn equals the session handle_user_turn returns.
C21_StreamFollowsTurnTree ==
    /\ pc = "done" /\ handler = "stream"
    /\ StreamCommand(LoadSession(store), user_text, user_locale).terminal
    =>
        /\ TurnCommand(LoadSession(store), user_text, user_locale).terminal
        /\ TurnCommand(LoadSession(store), user_text, user_locale).branch = branch
        /\ TurnCommand(LoadSession(store), user_text, user_locale).ret.session = session


\* The server process is restarted between two requests: the module is
\* imported again and the catalog read again from strategies.json, while the
\* session state persisted by the caller stays.
RestartProcess ==
    /\ pc = "idle"
    /\ STRATEGIES # Catalog
    /\ STRATEGIES' = Catalog
    /\ UNCHANGED <<client, served, store, pc, handler, session, user_text, user_locale,
                   events, ret, raised, branch, crisis, gen_calls, selector_calls,
                   extracted, estrategia, full_reply, gen_failed>>

NextRestart == Next \/ RestartProcess

SpecRestart == Init /\ [][NextRestart]_vars

\* C22: a strategy proposed by a strategy turn, unless it is the generic
\* fallback, has a name that is not in the session's rejected-strategies
\* list at the time of the proposal.
C22_ProposalNotRejected ==
    /\ branch = "strategy"
    /\ Get(estrategia, "nombre", None) # GenericFallback["nombre"]
    =>
        ~InSeq(estrategia["nombre"], Get(session.metadata, "rejected_strategies", <<>>))


\* the orientation and the level symbol the ranking uses for the recorded
\* call: the safety override first, and every level but abstract is concrete
RankOrientation ==
    IF selector_calls[1].sentimiento \in SafetyFeelings THEN "PREVENCION_VIGILANT"
    ELSE IF selector_calls[1].enfoque = "promocion_eager" THEN "PROMOCION_EAGER"
    ELSE "PREVENCION_VIGILANT"
RankLevel ==
    IF selector_calls[1].sentimiento \notin SafetyFeelings /\ selector_calls[1].nivel = "up"
    THEN "up" ELSE "down"

Tier(k) ==
    { i \in 1..Len(STRATEGIES) :
        /\ FitsCall(STRATEGIES[i])
        /\ CASE k = 1 -> /\ STRATEGIES[i]["category"] = RankOrientation
                         /\ STRATEGIES[i]["nivel_recomendado"] = RankLevel
             [] k = 2 -> STRATEGIES[i]["category"] = RankOrientation
             [] k = 3 -> STRATEGIES[i]["category"] =
                             (IF RankLevel = "up" THEN "ABSTRACTO" ELSE "CONCRETO")
             [] OTHER -> TRUE }

FirstOf(S) == CHOOSE i \in S : \A j \in S : i <= j

\* C23: with a non-empty candidate set seleccionar_estrategia returns the
\* first candidate, in catalog order, of the first non-empty tier among:
\* category and level match, category match, level label match, any
\* candidate; a mixed level counts as concrete.
C23_RankingTiers ==
    selector_calls # <<>> /\ Tier(4) # {} =>
        \E k \in 1..4 :
            /\ Tier(k) # {}
            /\ \A j \in 1..(k - 1) : Tier(j) = {}
            /\ estrategia = STRATEGIES[FirstOf(Tier(k))]

C23_Witness ==
    /\ selector_calls # <<>> /\ Len(STRATEGIES) = 3
    /\ selector_calls[1].nivel = "mixto" /\ selector_calls[1].sentimiento = None
    /\ selector_calls[1].enfoque = "promocion_eager"
    /\ Tier(1) # {} /\ FirstOf(Tier(2)) < FirstOf(Tier(1))
    /\ estrategia = STRATEGIES[FirstOf(Tier(1))]


\* C24: for slots whose deadline is urgent (today or <24h) or whose phase is
\* revision, infer_q2_q3 returns the concrete level, and that is the level a
\* strategy turn stores, whatever the task type and the phase.
C24_UrgencyForcesConcrete ==
    /\ branch = "strategy"
    /\ (session.slots.plazo \in {"hoy", "<24h"} \/ session.slots.fase = "revision")
    =>
        /\ infer_q2_q3(session.slots).Q3 = "down"
        /\ session.metadata["Q3"] = "down"


\* C25: without a reset the feeling question is asked in at most 3 turns:
\* every turn that reaches slot extraction adds exactly one to the stored
\* iteration, the feeling gate fires exactly while the feeling is unknown
\* and the iteration is at most 3, and the stored iteration never decreases
\* but by a reset turn.
C25_FeelingGateAtMostThrice ==
    [][ /\ (extracted' /\ ~extracted) =>
              /\ session'.iteration = store.iteration + 1
              /\ branch' = "feeling_gate" <=>
                    (session'.slots.sentimiento = None /\ session'.iteration <= 3)
        /\ (store' # store) =>
              \/ branch = "reset" /\ store'.iteration = 0
              \/ store'.iteration = store.iteration + (IF extracted THEN 1 ELSE 0)
      ]_vars

C25_Witness ==
    /\ pc = "done" /\ extracted
    /\ session.iteration = 4 /\ session.slots.sentimiento = None
    /\ branch = "free"


\* ---------------------------------------------------------------------------
\* StrategyRAG.retrieve on its own.  In this specification STRATEGIES is
\* rag_engine.strategies, store is rag_engine.embeddings, client is
\* rag_engine.embedding_model; selector_calls records the call and estrategia
\* the dict returned.  Embedding vectors have two integer components.
Vecs == { <<1, 0>>, <<0, 1>>, <<-2, 0>> }

RagEntry(n, tmin) ==
    [nombre |-> n, prompt_instruction |-> "i", tags |-> <<"t">>, tiempo_min |-> tmin]
RagPool == { RagEntry("R1", 30), RagEntry("R2", 5), RagEntry("R3", 15) }

\* the dummy entry __init__ installs when loading or embedding failed
DummyStrategy ==
    [nombre |-> "Estrategia General", prompt_instruction |-> "dummy",
     tiempo_min |-> 5, vibe |-> "NEUTRAL"]

\* the engine after __init__: catalog embedded entry by entry, or the dummy
\* entry without embeddings after a failure, or an empty catalog
InitRag ==
    /\ \/ /\ STRATEGIES \in UNION { { c \in [1..n -> RagPool] : Distinct(c) } :
                                    n \in 1..MaxCatalog }
          /\ store \in [1..Len(STRATEGIES) -> Vecs]
       \/ STRATEGIES = <<DummyStrategy>> /\ store = <<>>
       \/ STRATEGIES = <<>> /\ store = <<>>
    /\ client = "text-embedding-004"
    /\ served = 0
    /\ session = SessionStateSchema("sid", "uid")
    /\ TurnIdle

\* np.dot of two vectors
Dot(a, b) == a[1] * b[1] + a[2] * b[2]

\* the scoring loop from position i of candidates_indices on; scores are
\* compared with best_score as floats, -1.0 at the start
RECURSIVE ScoreLoop(_, _, _, _, _, _)
ScoreLoop(candidates_indices, embeddings, query_embedding, i, best_score, best_strat_index) ==
    IF i > Len(candidates_indices) \/ embeddings = <<>> THEN best_strat_index
    ELSE LET idx == candidates_indices[i]
             score == Dot(query_embedding, embeddings[idx])
         IN  IF score > best_score
             THEN ScoreLoop(candidates_indices, embeddings, query_embedding, i + 1, score, idx)
             ELSE ScoreLoop(candidates_indices, embeddings, query_embedding, i + 1,
                            best_score, best_strat_index)

\* retrieve: the index returned, 0 for the IndexError of self.strategies[0]
\* on an empty catalog.  embed is the outcome of the Embedder for the query:
\* [ok |-> FALSE] when both attempts raised, else the query vector.
retrieve(strategies, embeddings, tiempo_bloque, embed) ==
    LET user_time == OrInt(tiempo_bloque, 15)
        idx == [i \in 1..Len(strategies) |-> i]
        Feasible(i) == ~(Get(strategies[i], "tiempo_min", 0) > user_time)
        candidates_indices == SelectSeq(idx, Feasible)
    IN  IF candidates_indices = <<>> THEN (IF strategies = <<>> THEN 0 ELSE 1)
        ELSE IF ~embed.ok THEN 1
        ELSE ScoreLoop(candidates_indices, embeddings, embed.values, 1, -1,
                       candidates_indices[1])

EmbedOutcomes ==
    { [ok |-> FALSE, retried |-> TRUE, values |-> <<0, 0>>] }
    \cup [ ok : {TRUE}, retried : BOOLEAN, values : Vecs ]

\* one call of rag_engine.retrieve
Retrieve(tiempo_bloque, embed) ==
    LET r == retrieve(STRATEGIES, store, tiempo_bloque, embed)
        reaches_embedder ==
            \E i \in 1..Len(STRATEGIES) :
                ~(Get(STRATEGIES[i], "tiempo_min", 0) > OrInt(tiempo_bloque, 15))
    IN  /\ pc = "idle"
        /\ pc' = "retrieved"
        /\ selector_calls' = <<[tiempo_bloque |-> tiempo_bloque,
                                embed |-> IF reaches_embedder THEN embed
                                          ELSE [ok |-> FALSE, retried |-> FALSE,
                                                values |-> <<0, 0>>]]>>
        /\ raised' = (r = 0)
        /\ estrategia' = IF r = 0 THEN EmptyDict ELSE STRATEGIES[r]
        /\ client' = IF reaches_embedder /\ embed.ok /\ embed.retried
                     THEN "models/embedding-001" ELSE client
        /\ UNCHANGED <<served, STRATEGIES, store, handler, session, user_text,
                       user_locale, events, ret, branch, crisis, gen_calls,
                       extracted, full_reply, gen_failed>>

NextRag ==
    \E tiempo_bloque \in {NoneInt, 3, 10, 25}, embed \in EmbedOutcomes :
        Retrieve(tiempo_bloque, embed)

SpecRag == InitRag /\ [][NextRag]_vars

RagBudget == IF selector_calls[1].tiempo_bloque \in {NoneInt, 0} THEN 15
             ELSE selector_calls[1].tiempo_bloque
RagFeasible == { i \in 1..Len(STRATEGIES) : STRATEGIES[i]["tiempo_min"] <= RagBudget }
RagScore(i) ==
    selector_calls[1].embed.values[1] * store[i][1]
    + selector_calls[1].embed.values[2] * store[i][2]

\* C26: StrategyRAG.retrieve never returns an entry whose minimum time
\* exceeds the time budget, and with a query vector and embeddings at hand
\* it returns a feasible entry of maximal similarity to the query.
C26_RetrieveWithinBudget ==
    pc = "retrieved" =>
        /\ ~raised
        /\ estrategia["tiempo_min"] <= RagBudget
        /\ (selector_calls[1].embed.ok /\ store # <<>>) =>
              \E i \in RagFeasible :
                  /\ estrategia = STRATEGIES[i]
                  /\ \A j \in RagFeasible : RagScore(j) <= RagScore(i)


\* C27: after every turn of a session started fresh, in either handler,
\* strategy_given is true exactly when last_strategy is set, in the session
\* the turn ends with and in the session persisted.
C27_GivenIffNamed ==
    /\ store.strategy_given <=> store.last_strategy # None
    /\ pc = "done" => (session.strategy_given <=> session.last_strategy # None)

C27_Witness ==
    /\ pc = "done" /\ branch = "cmd_reject_retry"
    /\ store.strategy_given /\ store.last_strategy # None
    /\ ~session.strategy_given /\ session.last_strategy = None


\* the last rejection of the stored session took the redirect branch and no
\* rejection and no reset followed: the counter is present and 0
AfterRedirect ==
    /\ Has(store.metadata, "strategy_rejections")
    /\ store.metadata["strategy_rejections"] = 0

\* C28: the redirect rejection leaves strategy_given and last_strategy as
\* they were while a rejection under the threshold clears both, and after a
\* redirect no turn proposes a new strategy until a further rejection or a
\* reset: the strategy stays active.
C28_NoProposalAfterRedirect ==
    /\ (pc = "done" /\ branch = "cmd_reject_redirect") =>
           /\ session.strategy_given = store.strategy_given
           /\ session.last_strategy = store.last_strategy
    /\ (pc = "done" /\ branch = "cmd_reject_retry") =>
           ~session.strategy_given /\ session.last_strategy = None
    /\ AfterRedirect =>
           /\ store.strategy_given
           /\ branch # "strategy"


\* the texts of the token events among the first n events, joined in order
RECURSIVE JoinTokens(_)
JoinTokens(n) ==
    IF n = 0 THEN ""
    ELSE IF events[n].event = "token" THEN JoinTokens(n - 1) \o events[n].data.text
    ELSE JoinTokens(n - 1)

MetadataEvents == SelectSeq(events, LAMBDA e : e.event = "metadata")

\* C29: in a stream turn that reaches strategy proposal or free conversation
\* the full_reply of the metadata event is the concatenation, in emission
\* order, of the texts of the turn's token events, also when the Generator
\* fails before or after some fragments.
C29_FullReplyIsTokenConcat ==
    /\ pc = "done" /\ handler = "stream" /\ ~raised
    /\ branch \in {"strategy", "free"}
    =>
        /\ Len(MetadataEvents) = 1
        /\ MetadataEvents[1].data.full_reply = JoinTokens(Len(events))


====
